---- MODULE Spec2Model ----
(***************************************************************************)
(* A model of tcadana's TDR reader (src/src/tcadana/parser/tdr.py): the    *)
(* element decoder extract_triangles, the TDRFile container and its        *)
(* queries get_region, get_region_field_data and                           *)
(* get_region_field_data_dict.                                             *)
(*                                                                         *)
(* Conventions.  Python's 0-based arrays are TLA+ sequences, so the array  *)
(* element a[i] is the sequence element a[i + 1].  An (n, 3) integer array *)
(* is a sequence of n triples.  A text name and its UTF-8 encoding are the *)
(* same string here (the encoding is injective, and the code only compares *)
(* encoded names for equality).  A call's outcome is a record whose exc    *)
(* field is "none" for a normal return and the exception's class           *)
(* otherwise.                                                              *)
(***************************************************************************)
EXTENDS Integers, Sequences, FiniteSets, TLC

\* ------------------------------------------------------------------ bounds
\* Longest connectivity block (elements_0) of a region, in integers.
MaxRawLen == 8
\* Largest vertex table, in vertices.
MaxVertex == 2
\* Most state datasets in a file.
MaxDatasets == 2
\* Most files one object opens.
MaxOpens == 2

\* ------------------------------------------------------- program constants
\* The element type tag of a triangle.
TriangleTag == 2
\* The record stride of a connectivity block: [type_tag, v0, v1, v2].
Stride == 4

\* ------------------------------------------------------------- the inputs
\* The type tags a file may carry: the triangle tag and one other.
TagVals == {TriangleTag, TriangleTag + 1}
\* The vertex references a file may carry: one negative, and every index
\* of the largest vertex table, the last of them past the end of the
\* smaller table.
IdxVals == (-1) .. (MaxVertex - 1)
\* 0-based position p of a connectivity block holds a type tag.
IsTagPos(p) == p % Stride = 0
RECURSIVE RawArraysOfLen(_)
RawArraysOfLen(n) ==
  IF n = 0 THEN { <<>> }
  ELSE { Append(r, v) : r \in RawArraysOfLen(n - 1),
                        v \in IF IsTagPos(n - 1) THEN TagVals ELSE IdxVals }
\* The blocks of up to n integers.
RawArraysUpTo(n) == UNION { RawArraysOfLen(k) : k \in 0..n }
\* The vertex table of n vertices: distinct coordinates, x not monotonic.
VertexAt(i) == << (3 * i) % 7, i >>
VertexTable(n) == [i \in 1..n |-> VertexAt(i - 1)]
VertexTables == { VertexTable(n) : n \in (MaxVertex - 1)..MaxVertex }

None == "None"
FieldNames == {"f", "g"}
RegionNames == {"a", "b"}

\* The element of a one-element set.  { e(x) : x \in { v } } computes v once,
\* however often e uses it.
TheOne(s) == CHOOSE x \in s : TRUE

\* ----------------------------------------------------------- call outcomes
Raise(e, m) == [exc |-> e, msg |-> m, val |-> <<>>]
Return(v) == [exc |-> "none", msg |-> "", val |-> v]
Raised(r) == r.exc # "none"

\* ------------------------------------------------------- extract_triangles
\* A decoder that looks at the first type tag only.
EveryFourth_first(raw) == IF raw = <<>> THEN {} ELSE { raw[1] }
\* raw_triangles[::4]: the elements at the 0-based positions 0, 4, 8, ...
EveryFourth(raw) == { raw[p] : p \in { q \in 1..Len(raw) : (q - 1) % Stride = 0 } }
\* A decoder that keeps the columns 0..2 of a record instead of 1..3.
ReshapeDropFirst_droplast(raw) ==
  [i \in 1..(Len(raw) \div Stride) |->
     << raw[Stride * (i - 1) + 1], raw[Stride * (i - 1) + 2], raw[Stride * (i - 1) + 3] >>]
\* raw_triangles.reshape(-1, 4)[:, 1:]: the rows of four, each without its
\* first column.  Defined when the length is a multiple of four.
ReshapeDropFirst(raw) ==
  [i \in 1..(Len(raw) \div Stride) |->
     << raw[Stride * (i - 1) + 2], raw[Stride * (i - 1) + 3], raw[Stride * (i - 1) + 4] >>]
\* A decoder that cuts a ragged block down to its whole records.
extract_triangles_truncating(raw) ==
  IF \E t \in EveryFourth(raw) : t # TriangleTag
    THEN Raise("ValueError", "contains non triangles")
  ELSE Return(ReshapeDropFirst(raw))
extract_triangles(raw) ==
  IF \E t \in EveryFourth(raw) : t # TriangleTag
    THEN Raise("ValueError", "contains non triangles")
  ELSE IF Len(raw) % Stride # 0
    THEN Raise("ValueError", "cannot reshape array")
  ELSE Return(ReshapeDropFirst(raw))

\* ------------------------------------------------------------ numpy pieces
\* triangles.flatten(): the entries row by row.
RECURSIVE Flatten(_)
Flatten(t) ==
  IF t = <<>> THEN <<>> ELSE <<t[1][1], t[1][2], t[1][3]>> \o Flatten(Tail(t))
\* Insert v into the ascending duplicate-free sequence u.
RECURSIVE InsertSorted(_, _)
InsertSorted(u, v) ==
  IF u = <<>> THEN <<v>>
  ELSE IF v = u[1] THEN u
  ELSE IF v < u[1] THEN <<v>> \o u
  ELSE <<u[1]>> \o InsertSorted(Tail(u), v)
\* The distinct entries in order of first appearance, unsorted.
RECURSIVE SortUnique_unsorted(_)
SortUnique_unsorted(flat) ==
  IF flat = <<>> THEN <<>>
  ELSE TheOne({ IF \E i \in 1..Len(front) : front[i] = flat[Len(flat)]
                  THEN front ELSE Append(front, flat[Len(flat)]) :
                  front \in { SortUnique_unsorted(SubSeq(flat, 1, Len(flat) - 1)) } })
RECURSIVE SortUnique(_)
SortUnique(flat) ==
  IF flat = <<>> THEN <<>>
  ELSE TheOne({ InsertSorted(u, flat[Len(flat)]) :
                  u \in { SortUnique(SubSeq(flat, 1, Len(flat) - 1)) } })
\* The 0-based position of v in u.
PositionIn(u, v) == (CHOOSE i \in 1..Len(u) : u[i] = v) - 1
\* np.unique(triangles, return_inverse=True): the sorted distinct entries,
\* and for every flattened entry its position among them.
np_unique(t) ==
  LET flat == Flatten(t)
      u == SortUnique(flat)
  IN [unique |-> u, inverse |-> [j \in 1..Len(flat) |-> PositionIn(u, flat[j])]]
\* inverse.reshape(triangles.shape): rows of three again.
ReshapeRows(inv) ==
  [i \in 1..(Len(inv) \div 3) |-> << inv[3 * i - 2], inv[3 * i - 1], inv[3 * i] >>]
\* An index numpy accepts for an array of n elements: -n .. n-1.
IndexInBounds(i, n) == i >= -n /\ i < n
\* The element a negative index stands for.
WrapIndex(i, n) == IF i < 0 THEN i + n ELSE i
\* converter[unique_vertices] = np.arange(len(unique_vertices)), the
\* assignments made in order, the last one to an element standing.
RECURSIVE AssignArange(_, _, _)
AssignArange(conv, u, j) ==
  IF j > Len(u) THEN conv
  ELSE TheOne({ AssignArange(c, u, j + 1) :
                  c \in { [conv EXCEPT ![WrapIndex(u[j], Len(conv)) + 1] = j - 1] } })
\* np.zeros(n): every element already a local index.
np_full_zeros(n, v) == [i \in 1..n |-> 0]
\* np.full(n, -1)
np_full(n, v) == [i \in 1..n |-> v]
\* The mask converter > 0, which loses the vertex of local index 0.
RECURSIVE MaskSelect_positive(_, _, _)
MaskSelect_positive(tab, conv, i) ==
  IF i > Len(tab) THEN <<>>
  ELSE (IF conv[i] > 0 THEN <<tab[i]>> ELSE <<>>) \o MaskSelect_positive(tab, conv, i + 1)
\* self.vertex[converter >= 0]: the rows of the table the mask selects, in
\* table order.
RECURSIVE MaskSelect(_, _, _)
MaskSelect(tab, conv, i) ==
  IF i > Len(tab) THEN <<>>
  ELSE (IF conv[i] >= 0 THEN <<tab[i]>> ELSE <<>>) \o MaskSelect(tab, conv, i + 1)

\* Lines 204-209 of get_region_field_data: the region's mesh from its global
\* triangles and the file's vertex table.
Reindex(triangles, table) ==
  LET ui == np_unique(triangles)
      n == Len(table)
  IN IF \E j \in 1..Len(ui.unique) : ~IndexInBounds(ui.unique[j], n)
       THEN Raise("IndexError", "index out of bounds")
     ELSE LET converter == AssignArange(np_full(n, -1), ui.unique, 1)
          IN Return([vertices |-> MaskSelect(table, converter, 1),
                     triangles |-> ReshapeRows(ui.inverse)])

\* ---------------------------------------------------------------- the file
\* A file on disk is a record: the vertex table, the region groups of
\* collection/geometry_0 in key order, and the datasets of state_0 in key
\* order.  A region group has its key (the characters of "region_<n>"), its
\* name attribute and its elements_0 block.  A dataset has its attributes
\* (region and quantity may be missing) and its values.
RegionPrefix == << "r", "e", "g", "i", "o", "n", "_" >>
DigitChars == << "0", "1", "2", "3", "4", "5", "6", "7", "8", "9" >>
\* The key of region group number n (n < 100).
RegionKey(n) ==
  RegionPrefix \o (IF n >= 10 THEN << DigitChars[(n \div 10) + 1] >> ELSE <<>>)
               \o << DigitChars[(n % 10) + 1] >>
\* The members of geometry_0 that are not regions sort after them.
StateKey == << "s", "t", "a", "t", "e", "_", "0" >>
VertexKey == << "v", "e", "r", "t", "e", "x" >>
RegionGroup(n, nm, raw) == [key |-> RegionKey(n), name |-> nm, elements |-> raw]
\* self.geo.items(): every member of the group, by key.
GeoItems(f) ==
  f.regions \o << [key |-> StateKey, name |-> "", elements |-> <<>>],
                  [key |-> VertexKey, name |-> "", elements |-> <<>>] >>

\* key.startswith("region_")
StartsWith(key, prefix) ==
  Len(key) >= Len(prefix) /\ SubSeq(key, 1, Len(prefix)) = prefix
\* key.lstrip("region_"): without its leading characters that occur in the
\* argument.
RECURSIVE LStrip(_, _)
LStrip(key, chars) ==
  IF key # <<>> /\ key[1] \in chars THEN LStrip(Tail(key), chars) ELSE key
CharsOf(str) == { str[i] : i \in 1..Len(str) }
\* int(digits)
DigitValue(c) == (CHOOSE d \in 1..10 : DigitChars[d] = c) - 1
\* A conversion that reads the last digit only.
ParseInt_lastdigit(digits) ==
  IF digits = <<>> THEN 0 ELSE DigitValue(digits[Len(digits)])
RECURSIVE ParseInt(_)
ParseInt(digits) ==
  IF digits = <<>> THEN 0
  ELSE 10 * ParseInt(SubSeq(digits, 1, Len(digits) - 1)) + DigitValue(digits[Len(digits)])

\* ------------------------------------------------------------------- state
VARIABLES
  disk,            \* path -> the file stored there (never written)
  _filename,       \* self._filename
  _file,           \* self._file: None, or the path of the file it has open
  geo,             \* self.geo: None, or the path of the file it belongs to
  vertex,          \* self.vertex, likewise
  state,           \* self.state, likewise
  _region_names,   \* self._region_names: None, or a set of names
  _field_names,    \* self._field_names: None, or a set of names
  get_region_cache,            \* @cache of get_region: arguments -> result
  get_region_field_data_cache, \* @cache of get_region_field_data
  log,             \* the field names the logger has warned about
  handles,         \* every h5py.File opened so far, in order: its path, and
                   \* how often its close() was called
  inside,          \* the caller is in the body of a with-block on the object
  ret              \* the last call: what was called, with what, and its outcome
vars == << disk, _filename, _file, geo, vertex, state, _region_names, _field_names,
           get_region_cache, get_region_field_data_cache, log, handles, inside, ret >>

\* What one call may change besides the object's own fields: the two caches
\* and the log.
Memo == [gr |-> get_region_cache, gfd |-> get_region_field_data_cache, log |-> log]
CacheHas(c, k) == k \in DOMAIN c
CachePut(c, k, v) == [x \in DOMAIN c \cup {k} |-> IF x = k THEN v ELSE c[x]]
EmptyCache == [x \in {} |-> 0]

\* What h5py raises when a handle of a closed file is used is a ValueError
\* in some builds and a KeyError in others; a call is made under one of them.
ClosedHandleErrors == {"ValueError", "KeyError"}
\* The handle with number h (the h-th file opened) has been closed.
IsClosed(hs, h) == hs[h].closes > 0
\* The error classes that can make a difference to a call: both when a
\* cached region is a handle of a closed file, one otherwise, since the
\* groups in geo, vertex and state are those of the open file.
ErrorsThatMatter ==
  IF \E k \in DOMAIN get_region_cache :
       ~get_region_cache[k].isNone /\ IsClosed(handles, get_region_cache[k].handle)
    THEN ClosedHandleErrors ELSE {"ValueError"}
MemoWith(e) == [gr |-> get_region_cache, gfd |-> get_region_field_data_cache,
                log |-> log, closed_error |-> e]

\* ------------------------------------------------------------- load, close
\* The format markers of a file on disk: whether it has
\* collection/geometry_0, and in it vertex and state_0.  A file described
\* without them has all three.
AllMarkers == [geo |-> TRUE, vertex |-> TRUE, state |-> TRUE]
Markers(f) == IF "markers" \in DOMAIN f THEN f.markers ELSE AllMarkers
\* The fields of the object, and the files opened for it.
Obj == [_filename |-> _filename, _file |-> _file, geo |-> geo, vertex |-> vertex,
        state |-> state, _region_names |-> _region_names,
        _field_names |-> _field_names, handles |-> handles]
SetObj(o) ==
  /\ _filename' = o._filename
  /\ _file' = o._file
  /\ geo' = o.geo
  /\ vertex' = o.vertex
  /\ state' = o.state
  /\ _region_names' = o._region_names
  /\ _field_names' = o._field_names
  /\ handles' = o.handles
\* self._file = h5py.File(self.filename, "r") on a path that exists.
OpenFile(o) ==
  [o EXCEPT !._file = o._filename,
            !.handles = Append(@, [path |-> o._filename, closes |-> 0])]
\* A load() that opens the file and leaves the lookup of its groups for
\* later.
load_without_lookups(o) ==
  IF o._file # None THEN [out |-> Return(<<>>), o |-> o]
  ELSE IF o._filename \notin DOMAIN disk
    THEN [out |-> Raise("FileNotFoundError", "Unable to open file"), o |-> o]
  ELSE [out |-> Return(<<>>), o |-> OpenFile(o)]
\* load(): nothing when a file is open; else the file is opened and its
\* three groups are looked up one after the other, the first lookup that
\* fails leaving what was assigned before it.
load(o) ==
  IF o._file # None THEN [out |-> Return(<<>>), o |-> o]
  ELSE IF o._filename \notin DOMAIN disk
    THEN [out |-> Raise("FileNotFoundError", "Unable to open file"), o |-> o]
  ELSE IF ~Markers(disk[o._filename]).geo
    THEN [out |-> Raise("KeyError", "collection/geometry_0"), o |-> OpenFile(o)]
  ELSE IF ~Markers(disk[o._filename]).vertex
    THEN [out |-> Raise("KeyError", "vertex"),
          o |-> [OpenFile(o) EXCEPT !.geo = o._filename]]
  ELSE IF ~Markers(disk[o._filename]).state
    THEN [out |-> Raise("KeyError", "state_0"),
          o |-> [OpenFile(o) EXCEPT !.geo = o._filename, !.vertex = o._filename]]
  ELSE [out |-> Return(<<>>),
        o |-> [OpenFile(o) EXCEPT !.geo = o._filename, !.vertex = o._filename,
                                  !.state = o._filename]]
\* A close() that calls self._file.close() on the last file opened whether
\* or not the object still holds it.
ReleaseHandle_always(hs, file) ==
  IF hs # <<>> THEN [hs EXCEPT ![Len(hs)].closes = @ + 1] ELSE hs
\* if self._file is not None: self._file.close().  The file the object
\* holds is the last one opened.
ReleaseHandle(hs, file) ==
  IF file # None THEN [hs EXCEPT ![Len(hs)].closes = @ + 1] ELSE hs
\* close()
close(o) ==
  [o EXCEPT !.handles = ReleaseHandle(o.handles, o._file),
            !._file = None,
            !._region_names = [isNone |-> TRUE, names |-> {}],
            !._field_names = [isNone |-> TRUE, names |-> {}],
            !.geo = None, !.vertex = None, !.state = None]

\* ------------------------------------------------------------- get_region
NoRegion == [isNone |-> TRUE, num |-> 0, path |-> "", pos |-> 0, handle |-> 0]
\* The scan of get_region: the first member of geo whose key starts with
\* "region_" and whose name is the one asked for, a group of the file the
\* object has open (the last one opened).
FindRegion(f, path, region_name) ==
  LET items == GeoItems(f)
      hits == { i \in 1..Len(items) :
                  StartsWith(items[i].key, RegionPrefix) /\ items[i].name = region_name }
  IN IF hits = {} THEN NoRegion
     ELSE LET i == CHOOSE h \in hits : \A h2 \in hits : h <= h2
          IN [isNone |-> FALSE,
              num |-> ParseInt(LStrip(items[i].key, CharsOf(RegionPrefix))),
              path |-> path, pos |-> i, handle |-> Len(handles)]
\* get_region(region_name) without @cache.
get_region_uncached(m, region_name) ==
  IF geo = None
    THEN [out |-> Raise("AttributeError", "NoneType has no attribute items"), m |-> m]
  ELSE [out |-> Return(FindRegion(disk[geo], geo, region_name)), m |-> m]
\* get_region(region_name) under @cache: a stored result is returned as it
\* is; a call that raises stores nothing.
get_region(m, region_name) ==
  IF CacheHas(m.gr, << region_name >>)
    THEN [out |-> Return(m.gr[<< region_name >>]), m |-> m]
  ELSE IF geo = None
    THEN [out |-> Raise("AttributeError", "NoneType has no attribute items"), m |-> m]
  ELSE LET r == FindRegion(disk[geo], geo, region_name)
       IN [out |-> Return(r), m |-> [m EXCEPT !.gr = CachePut(@, << region_name >>, r)]]

\* --------------------------------------------------- get_region_field_data
\* The arguments of a call are the tuple the caller passes: << region_name >>
\* or << region_name, field_name >>, field_name possibly None.
FieldArg(args) == IF Len(args) >= 2 THEN args[2] ELSE None
\* The loop over self.state.items(): the key of the first dataset that has a
\* region and a quantity attribute equal to the region's number and to the
\* field name; 0 stands for fieldkey = None.
\* A scan that matches the region number alone.
FindFieldKey_any_quantity(f, region_num, field_name) ==
  LET hits == { k \in 1..Len(f.state) :
                  f.state[k].hasRegion /\ f.state[k].region = region_num }
  IN IF hits = {} THEN 0 ELSE CHOOSE h \in hits : \A h2 \in hits : h <= h2
FindFieldKey(f, region_num, field_name) ==
  LET hits == { k \in 1..Len(f.state) :
                  /\ f.state[k].hasRegion
                  /\ f.state[k].hasQuantity
                  /\ f.state[k].region = region_num
                  /\ f.state[k].quantity = field_name }
  IN IF hits = {} THEN 0 ELSE CHOOSE h \in hits : \A h2 \in hits : h <= h2
Mesh(vs, ts) == [arity |-> 2, vertices |-> vs, triangles |-> ts, field |-> <<>>]
MeshField(vs, ts, fv) == [arity |-> 3, vertices |-> vs, triangles |-> ts, field |-> fv]
\* The body of get_region_field_data, from a memo m.
\* The lines after the mesh is made: the field of the call, if it names one.
WithField(m, region, mesh, field_name) ==
  IF field_name = None
    THEN [out |-> Return(Mesh(mesh.vertices, mesh.triangles)), m |-> m]
  ELSE IF state = None
    THEN [out |-> Raise("AttributeError", "NoneType has no attribute items"), m |-> m]
  ELSE
    TheOne({ IF fieldkey = 0
               THEN [out |-> Return(Mesh(mesh.vertices, mesh.triangles)),
                     m |-> [m EXCEPT !.log = @ \cup {field_name}]]
             ELSE [out |-> Return(MeshField(mesh.vertices, mesh.triangles,
                                            disk[state].state[fieldkey].values)),
                   m |-> m] :
             fieldkey \in { FindFieldKey(disk[state], region.num, field_name) } })
\* The lines from the region found to the mesh.
WithRegion(m, region, field_name) ==
  TheOne({ IF Raised(et) THEN [out |-> et, m |-> m]
           ELSE IF vertex = None
             THEN [out |-> Raise("TypeError", "object of type NoneType has no len()"),
                   m |-> m]
           ELSE TheOne({ IF Raised(rx) THEN [out |-> rx, m |-> m]
                         ELSE WithField(m, region, rx.val, field_name) :
                         rx \in { Reindex(et.val, disk[vertex].vertex) } }) :
           et \in { IF IsClosed(handles, region.handle)
                       THEN Raise(m.closed_error, "invalid location identifier")
                     ELSE extract_triangles(
                            GeoItems(disk[region.path])[region.pos].elements) } })
\* The body of get_region_field_data, from a memo m.
get_region_field_data_body(m, args) ==
  TheOne({ IF Raised(g.out) THEN g
           ELSE IF g.out.val.isNone
             THEN [out |-> Raise("TypeError", "cannot unpack non-iterable NoneType object"),
                   m |-> g.m]
           ELSE WithRegion(g.m, g.out.val, FieldArg(args)) :
           g \in { get_region(m, args[1]) } })
\* get_region_field_data(*args) under @cache.
get_region_field_data(m, args) ==
  IF CacheHas(m.gfd, args)
    THEN [out |-> Return(m.gfd[args]), m |-> m]
  ELSE TheOne({ IF Raised(b.out) THEN b
                ELSE [out |-> b.out,
                      m |-> [b.m EXCEPT !.gfd = CachePut(@, args, b.out.val)]] :
                b \in { get_region_field_data_body(m, args) } })

\* ----------------------------------------------------------------- actions
NoNames == [isNone |-> TRUE, names |-> {}]
Names(s) == [isNone |-> FALSE, names |-> s]
Called(op, args, out) == [op |-> op, args |-> args, out |-> out]
SetMemo(m) ==
  /\ get_region_cache' = m.gr
  /\ get_region_field_data_cache' = m.gfd
  /\ log' = m.log

\* TDRFile(filename): the fields of __init__, nothing cached, nothing logged.
Constructed(files) ==
  /\ disk \in [{"p"} -> files]
  /\ _filename = "p"
  /\ _file = None /\ geo = None /\ vertex = None /\ state = None
  /\ _region_names = NoNames /\ _field_names = NoNames
  /\ get_region_cache = EmptyCache
  /\ get_region_field_data_cache = EmptyCache
  /\ log = {}
  /\ handles = <<>>
  /\ inside = FALSE
  /\ ret = Called("__init__", <<>>, Return(<<>>))

\* open_tdr(filename): TDRFile(filename), then load().
Opened(files) ==
  /\ disk \in [{"p"} -> files]
  /\ _filename = "p"
  /\ _file = "p" /\ geo = "p" /\ vertex = "p" /\ state = "p"
  /\ _region_names = NoNames /\ _field_names = NoNames
  /\ get_region_cache = EmptyCache
  /\ get_region_field_data_cache = EmptyCache
  /\ log = {}
  /\ handles = << [path |-> "p", closes |-> 0] >>
  /\ inside = FALSE
  /\ ret = Called("open_tdr", << "p" >>, Return(<<>>))

\* The calls of one object open at most MaxOpens files.
MayOpen(o) == Len(o.handles) <= MaxOpens
\* load()
Load ==
  /\ \E c \in { load(Obj) } :
       /\ MayOpen(c.o)
       /\ SetObj(c.o)
       /\ ret' = Called("load", <<>>, c.out)
  /\ UNCHANGED << disk, get_region_cache, get_region_field_data_cache, log, inside >>

\* extract_triangles(region["elements_0"][:]) on the block of a region of
\* the file.
ExtractTriangles ==
  /\ \E i \in 1..Len(disk[_filename].regions) :
       LET raw == disk[_filename].regions[i].elements
       IN ret' = Called("extract_triangles", << raw >>, extract_triangles(raw))
  /\ UNCHANGED << disk, _filename, _file, geo, vertex, state, _region_names,
                  _field_names, get_region_cache, get_region_field_data_cache, log,
                  handles, inside >>

GetRegion(region_name) ==
  /\ \E c \in { get_region(Memo, region_name) } :
       /\ ret' = Called("get_region", << region_name >>, c.out)
       /\ SetMemo(c.m)
  /\ UNCHANGED << disk, _filename, _file, geo, vertex, state, _region_names,
                  _field_names, handles, inside >>

GetRegionFieldData(args) ==
  /\ \E e \in ErrorsThatMatter : \E c \in { get_region_field_data(MemoWith(e), args) } :
       /\ ret' = Called("get_region_field_data", args, c.out)
       /\ SetMemo(c.m)
  /\ UNCHANGED << disk, _filename, _file, geo, vertex, state, _region_names,
                  _field_names, handles, inside >>

\* ------------------------------------------------- the mesh specification
\* One region "a" (region_0) with any of the connectivity blocks raws, no
\* state dataset.
MeshFiles(raws) ==
  { [vertex |-> v, regions |-> << RegionGroup(0, "a", raw) >>, state |-> <<>>] :
      v \in VertexTables, raw \in raws }
InitMesh == Opened(MeshFiles(RawArraysUpTo(MaxRawLen)))
NextMesh ==
  \/ ExtractTriangles
  \/ GetRegionFieldData(<< "a" >>)
SpecMesh == InitMesh /\ [][NextMesh]_vars

\* ------------------------------------------- get_region_field_data_dict
\* An optional list argument: None, or the list.
NoList == [isNone |-> TRUE, list |-> <<>>]
List(l) == [isNone |-> FALSE, list |-> l]
\* The orders in which a set may be iterated.
Orders(s) == { l \in [1..Cardinality(s) -> s] : \A i, j \in 1..Cardinality(s) :
                                                   l[i] = l[j] => i = j }
\* get_region_names(): the name of every member of geo whose key starts
\* with "region_".
get_region_names(f) ==
  { GeoItems(f)[i].name : i \in { k \in 1..Len(GeoItems(f)) :
                                    StartsWith(GeoItems(f)[k].key, RegionPrefix) } }
\* get_field_names(): the name attribute of every dataset of state.
get_field_names(f) == { f.state[k].name : k \in 1..Len(f.state) }
\* Triangulation(*vertices.T, triangles) of matplotlib: x and y are the two
\* columns; the triangle array must have a largest and a smallest entry,
\* the largest below len(x) and the smallest not negative.
Triangulation(vertices, triangles) ==
  LET entries == { triangles[i][j] : i \in 1..Len(triangles), j \in 1..3 }
  IN IF entries = {}
       THEN Raise("ValueError", "zero-size array to reduction operation maximum")
     ELSE IF \E e \in entries : e >= Len(vertices)
       THEN Raise("ValueError", "triangles max element is out of bounds")
     ELSE IF \E e \in entries : e < 0
       THEN Raise("ValueError", "triangles min element is out of bounds")
     ELSE Return([x |-> [i \in 1..Len(vertices) |-> vertices[i][1]],
                  y |-> [i \in 1..Len(vertices) |-> vertices[i][2]],
                  triangles |-> triangles])
\* region_field_data, a dict of dicts, is a function on the pairs
\* << region_name, field_name >> that have an entry; the regions whose dict
\* is empty are the ones the final comprehension drops.
\* region_field_data[region_name] = {}
ResetRegion(d, r) == [p \in { q \in DOMAIN d : q[1] # r } |-> d[p]]
\* {region_name: field_data for ... if field_data}
DictOfDicts(d) ==
  [r \in { p[1] : p \in DOMAIN d } |->
     [f \in { p[2] : p \in { q \in DOMAIN d : q[1] = r } } |-> d[<< r, f >>]]]
\* The two loops of get_region_field_data_dict from region i and field j on,
\* with the memo m and the entries d made so far.
\* What the body of the inner loop does with the outcome c of get_data and
\* the entries d0: the entries after it, or the exception that leaves the
\* function.
\*   try: vertices, triangles, field = get_data(region_name, field_name)
\*   except ValueError: continue
\*   region_field_data[region_name][field_name] = {"tri": ..., "field": field}
\* A loop body that makes an entry, with no field, of a mesh that came
\* without one.
LoopBody_keeps_meshes(c, d0, r, f) ==
  IF Raised(c.out)
    THEN IF c.out.exc = "ValueError" THEN Return(d0) ELSE c.out
  ELSE TheOne({ IF Raised(tri) THEN tri
                ELSE Return(CachePut(d0, << r, f >>,
                                     [tri |-> tri.val, field |-> c.out.val.field])) :
                tri \in { Triangulation(c.out.val.vertices, c.out.val.triangles) } })
LoopBody(c, d0, r, f) ==
  IF Raised(c.out)
    THEN IF c.out.exc = "ValueError" THEN Return(d0) ELSE c.out
  ELSE IF c.out.val.arity # 3
    \* the unpacking into three names raises ValueError, which is caught
    THEN Return(d0)
  ELSE TheOne({ IF Raised(tri) THEN tri
                ELSE Return(CachePut(d0, << r, f >>,
                                     [tri |-> tri.val, field |-> c.out.val.field])) :
                tri \in { Triangulation(c.out.val.vertices, c.out.val.triangles) } })
\* The two loops of get_region_field_data_dict from region i and field j on,
\* with the memo m and the entries d made so far.
RECURSIVE BulkLoop(_, _, _, _, _, _)
BulkLoop(m, d, rs, fs, i, j) ==
  IF i > Len(rs) THEN [out |-> Return(DictOfDicts(d)), m |-> m]
  ELSE IF j > Len(fs)
    THEN TheOne({ BulkLoop(m, d0, rs, fs, i + 1, 1) :
                  d0 \in { IF j = 1 THEN ResetRegion(d, rs[i]) ELSE d } })
  ELSE
    TheOne({ TheOne({ IF Raised(b) THEN [out |-> b, m |-> c.m]
                      ELSE BulkLoop(c.m, b.val, rs, fs, i, j + 1) :
                      b \in { LoopBody(c, IF j = 1 THEN ResetRegion(d, rs[i]) ELSE d,
                                        rs[i], fs[j]) } }) :
             c \in { get_region_field_data(m, << rs[i], fs[j] >>) } })

\* get_region_field_data_dict(region_names, field_names).  An omitted list
\* is read from the property, which fills its field on the first read.
GetRegionFieldDataDict(region_names, field_names) ==
  IF region_names.isNone /\ _region_names.isNone /\ geo = None
    THEN /\ ret' = Called("get_region_field_data_dict", << region_names, field_names >>,
                          Raise("TypeError", "NoneType object is not iterable"))
         /\ UNCHANGED << disk, _filename, _file, geo, vertex, state, _region_names,
                         _field_names, get_region_cache, get_region_field_data_cache,
                         log, handles, inside >>
  ELSE
    LET rprop == IF region_names.isNone /\ _region_names.isNone
                   THEN Names(get_region_names(disk[geo])) ELSE _region_names
    IN IF field_names.isNone /\ _field_names.isNone /\ state = None
         THEN /\ ret' = Called("get_region_field_data_dict",
                               << region_names, field_names >>,
                               Raise("AttributeError", "NoneType has no attribute values"))
              /\ _region_names' = rprop
              /\ UNCHANGED << disk, _filename, _file, geo, vertex, state,
                              _field_names, get_region_cache,
                              get_region_field_data_cache, log, handles, inside >>
       ELSE
         LET fprop == IF field_names.isNone /\ _field_names.isNone
                        THEN Names(get_field_names(disk[state])) ELSE _field_names
         IN /\ _region_names' = rprop
            /\ _field_names' = fprop
            /\ \E rs \in (IF region_names.isNone THEN Orders(rprop.names)
                                                 ELSE { region_names.list }) :
               \E fs \in (IF field_names.isNone THEN Orders(fprop.names)
                                                ELSE { field_names.list }) :
               \E e \in ErrorsThatMatter : \E m0 \in { MemoWith(e) } :
               \E c \in { BulkLoop(m0, EmptyCache, rs, fs, 1, 1) } :
                 /\ ret' = Called("get_region_field_data_dict",
                                  << region_names, field_names >>, c.out)
                 /\ SetMemo(c.m)
            /\ UNCHANGED << disk, _filename, _file, geo, vertex, state, handles,
                            inside >>

\* -------------------------------------------------- the files with fields
\* A dataset of state_0.  Its values are as many as the vertices of
\* AlignedBlock's mesh, and differ with its name.
AlignedBlock == << 2, 0, 1, 0 >>
CompactBlock == << 2, 1, 1, 1 >>
OtherTagBlock == << 3, 0, 1, 0 >>
BeyondBlock == << 2, 0, 1, MaxVertex >>
ValuesOf(nm) ==
  [i \in 1..Cardinality({ AlignedBlock[p] : p \in 2..4 }) |->
     (IF nm = "f" THEN 10 ELSE 20) + i]
Dataset(nm, hr, r, hq, q) ==
  [name |-> nm, hasRegion |-> hr, region |-> r, hasQuantity |-> hq, quantity |-> q,
   values |-> ValuesOf(nm)]
\* Every dataset: named f or g, for region 0 or 12 or with no region
\* attribute, of quantity f or g or with no quantity attribute.
AllDatasets ==
  { Dataset(nm, rq[1][1], rq[1][2], rq[2][1], rq[2][2]) :
      nm \in FieldNames,
      rq \in ({ << TRUE, r >> : r \in {0, 12} } \cup { << FALSE, 0 >> })
               \X { << TRUE, "f" >>, << TRUE, "g" >>, << FALSE, "" >> } }
\* The datasets that carry both attributes.
FullDatasets == { ds \in AllDatasets : ds.hasRegion /\ ds.hasQuantity }
RECURSIVE SeqsOfLen(_, _)
SeqsOfLen(s, n) ==
  IF n = 0 THEN { <<>> } ELSE { Append(l, e) : l \in SeqsOfLen(s, n - 1), e \in s }
SeqsUpTo(s, n) == UNION { SeqsOfLen(s, k) : k \in 0..n }

\* ------------------------------------------------ the field specification
\* One region "a" (region_0) and up to MaxDatasets datasets of any kind; the
\* container starts as TDRFile(filename) leaves it, not yet loaded.
FieldFiles ==
  { [vertex |-> VertexTable(MaxVertex), regions |-> << RegionGroup(0, "a", raw) >>,
     state |-> st] :
      raw \in { AlignedBlock, CompactBlock, OtherTagBlock },
      st \in SeqsUpTo(AllDatasets, MaxDatasets) }
InitField == Constructed(FieldFiles)
NextField ==
  \/ Load
  \/ \E f \in FieldNames : GetRegionFieldData(<< "a", f >>)
  \/ GetRegion("a")
SpecField == InitField /\ [][NextField]_vars

\* ------------------------------------------------- the bulk specification
\* Region "a" (region_0) with any of four blocks, with or without region
\* "b" (region_12) with a mesh or with another tag, and up to MaxDatasets
\* datasets that carry both attributes.
BulkBlocks == { AlignedBlock, OtherTagBlock, BeyondBlock, <<>> }
BulkFiles ==
  { [vertex |-> VertexTable(MaxVertex), regions |-> rg, state |-> st] :
      rg \in { << RegionGroup(0, "a", raw) >> : raw \in BulkBlocks }
             \cup { << RegionGroup(0, "a", r1), RegionGroup(12, "b", r2) >> :
                      r1 \in BulkBlocks, r2 \in { AlignedBlock, OtherTagBlock } },
      st \in SeqsUpTo(FullDatasets, MaxDatasets) }
Init == Opened(BulkFiles)
Next ==
  \E rn \in { NoList, List(<< "a" >>) } : \E fn \in { NoList, List(<< "f" >>) } :
    GetRegionFieldDataDict(rn, fn)
Spec == Init /\ [][Next]_vars

\* ------------------------------------------------------------ life cycle
\* close()
Close ==
  /\ SetObj(close(Obj))
  /\ ret' = Called("close", <<>>, Return(<<>>))
  /\ UNCHANGED << disk, get_region_cache, get_region_field_data_cache, log, inside >>

\* open_tdr(filename) from the object TDRFile(filename) has made: load(),
\* then the object is returned.
OpenTdr ==
  /\ ret.op = "__init__"
  /\ \E c \in { load(Obj) } :
       /\ MayOpen(c.o)
       /\ SetObj(c.o)
       /\ ret' = Called("open_tdr", << _filename >>,
                        IF Raised(c.out) THEN c.out ELSE Return(<< "TDRFile" >>))
  /\ UNCHANGED << disk, get_region_cache, get_region_field_data_cache, log, inside >>

\* The setter of filename: close(), the new name, load().
filename_setter(o, filename) == load([close(o) EXCEPT !._filename = filename])
SetFilename(filename) ==
  /\ \E c \in { filename_setter(Obj, filename) } :
       /\ MayOpen(c.o)
       /\ SetObj(c.o)
       /\ ret' = Called("filename.setter", << filename >>, c.out)
  /\ UNCHANGED << disk, get_region_cache, get_region_field_data_cache, log, inside >>

\* The property file: load() if no file is held, then the file.
File ==
  /\ \E c \in { IF _file = None THEN load(Obj) ELSE [out |-> Return(<<>>), o |-> Obj] } :
       /\ MayOpen(c.o)
       /\ SetObj(c.o)
       /\ ret' = Called("file", <<>>,
                        IF Raised(c.out) THEN c.out ELSE Return(<< c.o._file >>))
  /\ UNCHANGED << disk, get_region_cache, get_region_field_data_cache, log, inside >>

\* self[key], for the key of the geometry group.
GetItem ==
  /\ ret' = Called("__getitem__", << "collection/geometry_0" >>,
                   IF _file = None
                     THEN Raise("TypeError", "NoneType object is not subscriptable")
                   ELSE IF ~Markers(disk[_file]).geo
                     THEN Raise("KeyError", "collection/geometry_0")
                   ELSE Return(<< _file >>))
  /\ UNCHANGED << disk, _filename, _file, geo, vertex, state, _region_names,
                  _field_names, get_region_cache, get_region_field_data_cache, log,
                  handles, inside >>

\* The property region_names: the set of get_region_names() on the first
\* read, kept in _region_names.
RegionNamesProperty ==
  /\ IF ~_region_names.isNone
       THEN /\ ret' = Called("region_names", <<>>, Return(_region_names.names))
            /\ UNCHANGED _region_names
     ELSE IF geo = None
       THEN /\ ret' = Called("region_names", <<>>,
                             Raise("TypeError", "NoneType object is not iterable"))
            /\ UNCHANGED _region_names
     ELSE \E ns \in { get_region_names(disk[geo]) } :
            /\ ret' = Called("region_names", <<>>, Return(ns))
            /\ _region_names' = Names(ns)
  /\ UNCHANGED << disk, _filename, _file, geo, vertex, state, _field_names,
                  get_region_cache, get_region_field_data_cache, log, handles, inside >>

\* The property field_names, likewise.
FieldNamesProperty ==
  /\ IF ~_field_names.isNone
       THEN /\ ret' = Called("field_names", <<>>, Return(_field_names.names))
            /\ UNCHANGED _field_names
     ELSE IF state = None
       THEN /\ ret' = Called("field_names", <<>>,
                             Raise("AttributeError", "NoneType has no attribute values"))
            /\ UNCHANGED _field_names
     ELSE \E ns \in { get_field_names(disk[state]) } :
            /\ ret' = Called("field_names", <<>>, Return(ns))
            /\ _field_names' = Names(ns)
  /\ UNCHANGED << disk, _filename, _file, geo, vertex, state, _region_names,
                  get_region_cache, get_region_field_data_cache, log, handles, inside >>

\* The property dimensions: for x and y the least and the greatest
\* coordinate of the vertex table.
MinOf(s) == CHOOSE v \in s : \A w \in s : v <= w
MaxOf(s) == CHOOSE v \in s : \A w \in s : v >= w
\* The box of the first vertex of the table alone.
dimensions_first(table) ==
  [x |-> << table[1][1], table[1][1] >>, y |-> << table[1][2], table[1][2] >>]
dimensions(table) ==
  [x |-> << MinOf({ table[i][1] : i \in 1..Len(table) }),
            MaxOf({ table[i][1] : i \in 1..Len(table) }) >>,
   y |-> << MinOf({ table[i][2] : i \in 1..Len(table) }),
            MaxOf({ table[i][2] : i \in 1..Len(table) }) >>]
\* The vertex table is read from the file the object holds; numpy has no
\* least or greatest element of an empty array.
Dimensions ==
  /\ ret' = Called("dimensions", <<>>,
                   IF vertex = None
                     THEN Raise("AttributeError", "NoneType has no attribute dtype")
                   ELSE IF disk[vertex].vertex = <<>>
                     THEN Raise("ValueError", "zero-size array to reduction operation")
                   ELSE Return(dimensions(disk[vertex].vertex)))
  /\ UNCHANGED << disk, _filename, _file, geo, vertex, state, _region_names,
                  _field_names, get_region_cache, get_region_field_data_cache, log,
                  handles, inside >>

\* with tdr_file: ...  __enter__ is load(); the body is entered if it
\* returns.
Enter ==
  /\ ~inside
  /\ \E c \in { load(Obj) } :
       /\ MayOpen(c.o)
       /\ SetObj(c.o)
       /\ ret' = Called("__enter__", <<>>, c.out)
       /\ inside' = ~Raised(c.out)
  /\ UNCHANGED << disk, get_region_cache, get_region_field_data_cache, log >>
\* An __exit__ that closes when the body ended without an exception only.
exit_unless_failed(o, exc_type) == IF exc_type = None THEN close(o) ELSE o
\* __exit__(exc_type, exc_value, exc_tb)
exit(o, exc_type) == close(o)
\* The body of the with-block is left: at its end or by a return (exc_type
\* is None), or by an exception.
Exit(exc_type) ==
  /\ inside
  /\ SetObj(exit(Obj, exc_type))
  /\ inside' = FALSE
  /\ ret' = Called("__exit__", << exc_type >>, Return(<<>>))
  /\ UNCHANGED << disk, get_region_cache, get_region_field_data_cache, log >>

\* ----------------------------------------------- the life specification
\* Two paths with a file, p and q, and a path z with none.  The file at p
\* has region "a" as region_0 and field f, or is that file without one of
\* the three groups load() looks up; the file at q has region "a" as
\* region_12 with another mesh and other values, or has no region "a".
FileA ==
  [vertex |-> VertexTable(MaxVertex), regions |-> << RegionGroup(0, "a", AlignedBlock) >>,
   state |-> << Dataset("f", TRUE, 0, TRUE, "f") >>]
FileB ==
  [vertex |-> VertexTable(MaxVertex), regions |-> << RegionGroup(12, "a", CompactBlock) >>,
   state |-> << Dataset("g", TRUE, 12, TRUE, "f") >>]
FileC ==
  [vertex |-> VertexTable(MaxVertex), regions |-> << RegionGroup(0, "b", AlignedBlock) >>,
   state |-> <<>>]
Without(f, marker) ==
  [vertex |-> f.vertex, regions |-> f.regions, state |-> f.state,
   markers |-> [AllMarkers EXCEPT ![marker] = FALSE]]
LifePaths == {"p", "q", "z"}
LifeDisks ==
  { [path \in {"p", "q"} |-> IF path = "p" THEN fp ELSE fq] :
      fp \in { FileA } \cup { Without(FileA, mk) : mk \in {"geo", "vertex", "state"} },
      fq \in { FileB, FileC } }
\* TDRFile(filename), for any of the three paths.
InitLife ==
  /\ disk \in LifeDisks
  /\ _filename \in LifePaths
  /\ _file = None /\ geo = None /\ vertex = None /\ state = None
  /\ _region_names = NoNames /\ _field_names = NoNames
  /\ get_region_cache = EmptyCache
  /\ get_region_field_data_cache = EmptyCache
  /\ log = {}
  /\ handles = <<>>
  /\ inside = FALSE
  /\ ret = Called("__init__", <<>>, Return(<<>>))
NextLife ==
  \/ OpenTdr
  \/ Load
  \/ Close
  \/ \E path \in LifePaths : SetFilename(path)
  \/ File
  \/ GetItem
  \/ RegionNamesProperty
  \/ FieldNamesProperty
  \/ Dimensions
  \/ GetRegion("a")
  \/ \E args \in { << "a" >>, << "a", "f" >> } : GetRegionFieldData(args)
  \/ Enter
  \/ \E exc_type \in { None, "KeyError" } : Exit(exc_type)
SpecLife == InitLife /\ [][NextLife]_vars

\* --------------------------------------------- the region specification
\* Up to three region groups, region_0, region_12 and region_7 in the order
\* of their keys, each named a, A or b and with a mesh; one dataset of
\* quantity f for region 0 and one for region 12.
RegionNumbers == << 0, 12, 7 >>
AskedNames == {"a", "A", "b"}
RECURSIVE RegionLists(_)
RegionLists(i) ==
  IF i > Len(RegionNumbers) THEN { <<>> }
  ELSE { IF nm = "" THEN rest ELSE << RegionGroup(RegionNumbers[i], nm, AlignedBlock) >> \o rest :
           nm \in AskedNames \cup {""}, rest \in RegionLists(i + 1) }
RegionFiles ==
  { [vertex |-> VertexTable(MaxVertex), regions |-> rg,
     state |-> << Dataset("f", TRUE, 0, TRUE, "f"), Dataset("f", TRUE, 12, TRUE, "f") >>] :
      rg \in RegionLists(1) }
InitRegion == Opened(RegionFiles)
NextRegion ==
  \/ \E nm \in AskedNames : GetRegion(nm)
  \/ \E nm \in AskedNames : GetRegionFieldData(<< nm >>)
  \/ GetRegionFieldDataDict(List(<< "b", "a" >>), List(<< "f" >>))
SpecRegion == InitRegion /\ [][NextRegion]_vars

\* ------------------------------------------ the bounding box specification
\* Two files, each with some vertex table of up to MaxVertex vertices (none
\* included) and one region "a" whose one triangle refers to the first
\* vertex only; the object is made for either path, loaded, closed and
\* pointed at either path, and asked for its box and for the region's mesh.
BoxPoints == { << 0, 1 >>, << 2, 0 >>, << 1, 2 >> }
FirstVertexBlock == << 2, 0, 0, 0 >>
BoxFile(table) ==
  [vertex |-> table, regions |-> << RegionGroup(0, "a", FirstVertexBlock) >>,
   state |-> <<>>]
BoxDisks(tables) ==
  { [path \in {"p", "q"} |-> IF path = "p" THEN BoxFile(tp) ELSE BoxFile(tq)] :
      tp \in tables, tq \in tables }
InitBox ==
  /\ disk \in BoxDisks(SeqsUpTo(BoxPoints, MaxVertex))
  /\ _filename \in {"p", "q"}
  /\ _file = None /\ geo = None /\ vertex = None /\ state = None
  /\ _region_names = NoNames /\ _field_names = NoNames
  /\ get_region_cache = EmptyCache
  /\ get_region_field_data_cache = EmptyCache
  /\ log = {}
  /\ handles = <<>>
  /\ inside = FALSE
  /\ ret = Called("__init__", <<>>, Return(<<>>))
NextBox ==
  \/ Load
  \/ Close
  \/ \E path \in {"p", "q"} : SetFilename(path)
  \/ Dimensions
SpecBox == InitBox /\ [][NextBox]_vars

\* ------------------------------------------------------- crop_triangles
\* A triangulation of matplotlib: the coordinates x and y of its points,
\* its triangles (rows of three 0-based point indices) and its mask, None
\* or one Boolean per triangle, TRUE for a triangle that is masked out.
\* None, where a triangulation, a mask or a limit may stand, is a record
\* that says so.
NoTriangulation == [isNone |-> TRUE]
NoMask == [isNone |-> TRUE, bits |-> <<>>]
Mask(bits) == [isNone |-> FALSE, bits |-> bits]
NoLimit == [isNone |-> TRUE, pair |-> << 0, 0 >>]
Limit(a, b) == [isNone |-> FALSE, pair |-> << a, b >>]
Triangulation_masked(x, y, triangles, mask) ==
  [x |-> x, y |-> y, triangles |-> triangles, mask |-> mask]
\* c[triangles].min(axis=1) and c[triangles].max(axis=1) at triangle i.
CornerMin(c, triangles, i) == MinOf({ c[triangles[i][j] + 1] : j \in 1..3 })
CornerMax(c, triangles, i) == MaxOf({ c[triangles[i][j] + 1] : j \in 1..3 })
\* (c_min >= min(lim)) & (c_max <= max(lim)) at triangle i, for a limit
\* that is not None.
WithinLimit(c, triangles, i, lim) ==
  /\ CornerMin(c, triangles, i) >= MinOf({ lim.pair[1], lim.pair[2] })
  /\ CornerMax(c, triangles, i) <= MaxOf({ lim.pair[1], lim.pair[2] })
\* crop_triangles(tri, xlim, ylim): tri when there is no limit; else the
\* array named mask is TRUE at the triangles inside the limits, None is
\* returned when it is TRUE nowhere, and it is handed to Triangulation as
\* the mask.
crop_triangles(tri, xlim, ylim) ==
  IF xlim.isNone /\ ylim.isNone THEN Return(tri)
  ELSE LET mask ==
             [i \in 1..Len(tri.triangles) |->
                /\ ~xlim.isNone => WithinLimit(tri.x, tri.triangles, i, xlim)
                /\ ~ylim.isNone => WithinLimit(tri.y, tri.triangles, i, ylim)]
       IN IF \A i \in 1..Len(mask) : ~mask[i] THEN Return(NoTriangulation)
          ELSE Return(Triangulation_masked(tri.x, tri.y, tri.triangles, Mask(mask)))

\* The crop specification: a triangulation of four points with up to
\* MaxTriangles triangles is in hand, and is cropped to limits that are
\* None or two values of 0..MaxCoord in either order.
MaxTriangles == 2
MaxCoord == 2
CropX == << 0, 1, 2, 1 >>
CropY == << 0, 0, 1, 2 >>
CropRows == { << 0, 1, 2 >>, << 0, 1, 3 >>, << 1, 2, 3 >>, << 2, 3, 0 >> }
CropInputs(n) ==
  { Triangulation_masked(CropX, CropY, t, NoMask) :
      t \in SeqsUpTo(CropRows, n) \ { <<>> } }
Limits == { NoLimit } \cup { Limit(a, b) : a \in 0..MaxCoord, b \in 0..MaxCoord }
InitCrop ==
  /\ disk \in [{"tri"} -> CropInputs(MaxTriangles)]
  /\ _filename = None
  /\ _file = None /\ geo = None /\ vertex = None /\ state = None
  /\ _region_names = NoNames /\ _field_names = NoNames
  /\ get_region_cache = EmptyCache
  /\ get_region_field_data_cache = EmptyCache
  /\ log = {}
  /\ handles = <<>>
  /\ inside = FALSE
  /\ ret = Called("Triangulation", <<>>, Return(<<>>))
CropTriangles(xlim, ylim) ==
  /\ ret' = Called("crop_triangles", << disk["tri"], xlim, ylim >>,
                   crop_triangles(disk["tri"], xlim, ylim))
  /\ UNCHANGED << disk, _filename, _file, geo, vertex, state, _region_names,
                  _field_names, get_region_cache, get_region_field_data_cache, log,
                  handles, inside >>
NextCrop == \E xlim \in Limits : \E ylim \in Limits : CropTriangles(xlim, ylim)
SpecCrop == InitCrop /\ [][NextCrop]_vars
\* ------------------------------------------------------------ _parsing
\* A DF-ISE text file is the list of dataset names of its Info block and
\* the numbers of its Data block, in the order written.
\* raw_data[i::k]: the values at the 0-based positions i, i + k, i + 2k, ...
Stepped(raw_data, i, k) ==
  [j \in 1..(IF i >= Len(raw_data) THEN 0 ELSE (Len(raw_data) - i + k - 1) \div k) |->
     raw_data[i + (j - 1) * k + 1]]
\* np.pad(chunk, (0, after), mode='constant'): after zeros behind the
\* chunk; a negative width is refused.
np_pad(chunk, after) ==
  IF after < 0 THEN Raise("ValueError", "index can't contain negative values")
  ELSE Return(chunk \o [j \in 1..after |-> 0])
\* a[:n]
Head_n(a, n) == SubSeq(a, 1, IF n < Len(a) THEN n ELSE Len(a))
\* The loop of lines 49-55 from dataset i on, data_dict being what the
\* datasets before it have been given; the first error ends it.
RECURSIVE ParsingLoop(_, _, _, _, _)
ParsingLoop(datasets, raw_data, n, i, data_dict) ==
  IF i >= Len(datasets) THEN Return(data_dict)
  ELSE \* chunk = raw_data[i :: len(datasets)], padded by n - len(chunk)
       LET padded == TheOne({ np_pad(chunk, n - Len(chunk)) :
                                chunk \in { Stepped(raw_data, i, Len(datasets)) } })
       IN IF Raised(padded) THEN padded
          ELSE TheOne({ ParsingLoop(datasets, raw_data, n, i + 1, d) :
                 d \in { [nm \in DOMAIN data_dict \cup { datasets[i + 1] } |->
                            IF nm = datasets[i + 1] THEN Head_n(padded.val, n)
                            ELSE data_dict[nm]] } })
\* Lines 44-57 of _parsing for a file that has a Data block: n is
\* len(raw_data) // len(datasets), and every dataset gets its chunk.
_parsing(f) ==
  IF Len(f.datasets) = 0 THEN Raise("ZeroDivisionError", "integer division or modulo by zero")
  ELSE ParsingLoop(f.datasets, f.data, Len(f.data) \div Len(f.datasets), 0,
                   [nm \in {} |-> <<>>])

\* The text specification: a file with 1..MaxNames datasets and a Data
\* block of up to MaxValues numbers, each 1 or 2, is parsed.
MaxNames == 3
MaxValues == 5
DatasetNames == << "d0", "d1", "d2", "d3", "d4", "d5" >>
TextFiles(names, values) ==
  { [datasets |-> SubSeq(DatasetNames, 1, k), data |-> raw] :
      k \in 1..names, raw \in SeqsUpTo({ 1, 2 }, values) }
InitText ==
  /\ disk \in [{"p"} -> TextFiles(MaxNames, MaxValues)]
  /\ _filename = "p"
  /\ _file = None /\ geo = None /\ vertex = None /\ state = None
  /\ _region_names = NoNames /\ _field_names = NoNames
  /\ get_region_cache = EmptyCache
  /\ get_region_field_data_cache = EmptyCache
  /\ log = {}
  /\ handles = <<>>
  /\ inside = FALSE
  /\ ret = Called("__init__", <<>>, Return(<<>>))
Parsing ==
  /\ ret' = Called("_parsing", << _filename >>, _parsing(disk[_filename]))
  /\ UNCHANGED << disk, _filename, _file, geo, vertex, state, _region_names,
                  _field_names, get_region_cache, get_region_field_data_cache, log,
                  handles, inside >>
NextText == Parsing
SpecText == InitText /\ [][NextText]_vars
\* ------------------------------------------------ get_region_field_names
\* self.geo[region_name] for the key "region_<n>": the position of the
\* member of geo that has the key, 0 when there is none (a KeyError).
GeoMember(f, key) ==
  LET hits == { i \in 1..Len(GeoItems(f)) : GeoItems(f)[i].key = key }
  IN IF hits = {} THEN 0 ELSE CHOOSE h \in hits : TRUE
\* list(get_region_field_names(region_name)) from dataset k of state on,
\* yielded being the quantities yielded before it: a dataset whose region
\* group has another name is passed over, the quantity attribute of the
\* others is yielded.
RECURSIVE FieldNamesLoop(_, _, _, _)
FieldNamesLoop(f, region_name, k, yielded) ==
  IF k > Len(f.state) THEN Return(yielded)
  ELSE IF ~f.state[k].hasRegion THEN Raise("KeyError", "region")
  ELSE IF GeoMember(f, RegionKey(f.state[k].region)) = 0
    THEN Raise("KeyError", "region_<n>")
  ELSE IF GeoItems(f)[GeoMember(f, RegionKey(f.state[k].region))].name # region_name
    THEN FieldNamesLoop(f, region_name, k + 1, yielded)
  ELSE IF ~f.state[k].hasQuantity THEN Raise("KeyError", "quantity")
  ELSE TheOne({ FieldNamesLoop(f, region_name, k + 1, y) :
                  y \in { Append(yielded, f.state[k].quantity) } })
get_region_field_names(f, region_name) == FieldNamesLoop(f, region_name, 1, <<>>)
GetRegionFieldNames(region_name) ==
  /\ ret' = Called("get_region_field_names", << region_name >>,
                   IF state = None
                     THEN Raise("AttributeError", "NoneType has no attribute values")
                   ELSE get_region_field_names(disk[state], region_name))
  /\ UNCHANGED << disk, _filename, _file, geo, vertex, state, _region_names,
                  _field_names, get_region_cache, get_region_field_data_cache, log,
                  handles, inside >>

\* The names specification: region "a" (region_0) and region "b"
\* (region_12), both with a mesh, and up to MaxDatasets datasets that carry
\* both attributes, each for one of the two regions, their name and their
\* quantity each f or g; the open file is asked for its field names, for
\* the field names of a region and for the data of a region and a field.
NamesFiles ==
  { [vertex |-> VertexTable(MaxVertex),
     regions |-> << RegionGroup(0, "a", AlignedBlock), RegionGroup(12, "b", AlignedBlock) >>,
     state |-> st] :
      st \in SeqsUpTo(FullDatasets, MaxDatasets) }
InitNames == Opened(NamesFiles)
NextNames ==
  \/ FieldNamesProperty
  \/ \E r \in RegionNames : GetRegionFieldNames(r)
  \/ \E r \in RegionNames : \E f \in FieldNames : GetRegionFieldData(<< r, f >>)
SpecNames == InitNames /\ [][NextNames]_vars
\* ------------------------------------------------ properties of the mesh
\* The words of the properties, from the file alone.  The block of the one
\* region of a mesh file, and the file's vertex table:
TheRaw == disk["p"].regions[1].elements
TheTable == disk["p"].vertex
\* A block that is whole records, every one tagged a triangle.
ValidBlock(raw) ==
  /\ Len(raw) % 4 = 0
  /\ \A p \in 1..Len(raw) : (p - 1) % 4 = 0 => raw[p] = 2
\* A type tag of the block (0-based positions 0, 4, 8, ...) that is not 2.
HasOtherTag(raw) == \E p \in 1..Len(raw) : (p - 1) % 4 = 0 /\ raw[p] # 2
\* Corner j of global triangle i of a block, both 1-based.
Corner(raw, i, j) == raw[4 * (i - 1) + 1 + j]
NumTriangles(raw) == Len(raw) \div 4
\* The global vertex indices a block refers to.
Referenced(raw) == { Corner(raw, i, j) : i \in 1..NumTriangles(raw), j \in 1..3 }
\* The 0-based rank of v among the set s, in ascending order.
Rank(s, v) == Cardinality({ u \in s : u < v })
\* The element of rank r of s.
OfRank(s, r) == CHOOSE v \in s : Rank(s, v) = r
AllInTable(raw) == \A v \in Referenced(raw) : v >= 0 /\ v < Len(TheTable)
MeshReturned == ret.op = "get_region_field_data" /\ ~Raised(ret.out)
MeshCalled == ret.op = "get_region_field_data"
Decoded == ret.op = "extract_triangles"

\* C1. Reindex correctness: for a block of triangles whose vertex indices all
\* lie in 0..N-1, get_region_field_data returns; the region vertices are as
\* many as the distinct indices of the block; and for every triangle i and
\* corner j the region vertex at the local index of the corner is the
\* vertex of the table at the corner's global index.
C1_ReindexCorrect ==
  (MeshCalled /\ ValidBlock(TheRaw) /\ AllInTable(TheRaw)) =>
    /\ ~Raised(ret.out)
    /\ Len(ret.out.val.vertices) = Cardinality(Referenced(TheRaw))
    /\ Len(ret.out.val.triangles) = NumTriangles(TheRaw)
    /\ \A i \in 1..NumTriangles(TheRaw) : \A j \in 1..3 :
         ret.out.val.vertices[ret.out.val.triangles[i][j] + 1]
           = TheTable[Corner(TheRaw, i, j) + 1]
\* Two triangles in range that share a vertex, and a corner whose local
\* index differs from its global one.
C1_Witness ==
  /\ MeshReturned /\ ValidBlock(TheRaw) /\ AllInTable(TheRaw)
  /\ NumTriangles(TheRaw) = 2
  /\ Cardinality(Referenced(TheRaw)) < Len(TheTable)
  /\ \E i \in 1..2 : \E j \in 1..3 :
       ret.out.val.triangles[i][j] # Corner(TheRaw, i, j)

\* C2. Reduced-mesh invariant: in every result of get_region_field_data,
\* every local index is in [0, k), k the number of region vertices; the
\* region vertices are the referenced vertices of the table, each once, in
\* ascending order of global index; and the local index of a corner is the
\* rank of its global index among the referenced ones.
C2_ReducedMesh ==
  MeshReturned =>
    LET k == Len(ret.out.val.vertices)
        refs == Referenced(TheRaw)
    IN /\ \A i \in 1..Len(ret.out.val.triangles) : \A j \in 1..3 :
            /\ ret.out.val.triangles[i][j] >= 0
            /\ ret.out.val.triangles[i][j] < k
            /\ ret.out.val.triangles[i][j] = Rank(refs, Corner(TheRaw, i, j))
       /\ k = Cardinality(refs)
       /\ \A r \in 0..(k - 1) :
            /\ OfRank(refs, r) >= 0 /\ OfRank(refs, r) < Len(TheTable)
            /\ ret.out.val.vertices[r + 1] = TheTable[OfRank(refs, r) + 1]

\* C3. Round trip: a block decoded by extract_triangles and reindexed, its
\* local indices mapped back through the ascending list of the distinct
\* global indices, is the global triangle array of the block again.
C3_RoundTrip ==
  (MeshReturned /\ ~Raised(extract_triangles(TheRaw))) =>
    LET global == extract_triangles(TheRaw).val
        local == ret.out.val.triangles
        refs == { global[i][j] : i \in 1..Len(global), j \in 1..3 }
    IN /\ Len(local) = Len(global)
       /\ Len(global) = NumTriangles(TheRaw)
       /\ \A i \in 1..Len(local) : \A j \in 1..3 :
            /\ OfRank(refs, local[i][j]) = global[i][j]
            /\ global[i][j] = Corner(TheRaw, i, j)
\* Two triangles whose first corners already appear out of ascending order.
C3_Witness ==
  /\ MeshReturned /\ ValidBlock(TheRaw)
  /\ NumTriangles(TheRaw) = 2
  /\ Corner(TheRaw, 1, 1) > Corner(TheRaw, 1, 2)
  /\ ret.out.val.triangles[1][1] > ret.out.val.triangles[1][2]

\* C4. Index bounds: a block of triangles that refers to a vertex index
\* outside 0..N-1 makes get_region_field_data fail with an index error; no
\* mesh is returned.
C4_IndexBounds ==
  (MeshCalled /\ ValidBlock(TheRaw) /\ ~AllInTable(TheRaw)) =>
    (Raised(ret.out) /\ ret.out.exc = "IndexError")

\* C5. Type validation: extract_triangles of a block with a type tag other
\* than 2 fails as containing non-triangles, whatever else the block holds.
C5_TypeValidation ==
  (Decoded /\ HasOtherTag(ret.args[1])) =>
    /\ ret.out.exc = "ValueError"
    /\ ret.out.msg = "contains non triangles"
\* The first record is a triangle, a later one is not.
C5_Witness ==
  /\ Decoded /\ Len(ret.args[1]) = 8
  /\ ret.args[1][1] = 2 /\ ret.args[1][5] # 2
  /\ ret.out.exc = "ValueError"

\* C6. Length validation: extract_triangles of a block whose length is not
\* a multiple of 4 raises; it returns no array.
C6_LengthValidation ==
  (Decoded /\ Len(ret.args[1]) % 4 # 0) => ret.out.exc = "ValueError"
\* A ragged block whose sampled tags are all 2.
C6_Witness ==
  /\ Decoded /\ Len(ret.args[1]) % 4 # 0 /\ Len(ret.args[1]) > 4
  /\ ~HasOtherTag(ret.args[1])
  /\ ret.out.exc = "ValueError"

\* C7. Decoder result: extract_triangles of 4n integers whose tags are all 2
\* returns n rows, row i being (raw[4i+1], raw[4i+2], raw[4i+3]).
C7_DecoderResult ==
  (Decoded /\ ValidBlock(ret.args[1])) =>
    /\ ~Raised(ret.out)
    /\ Len(ret.out.val) = Len(ret.args[1]) \div 4
    /\ \A i \in 0..(Len(ret.out.val) - 1) :
         ret.out.val[i + 1] = << ret.args[1][4 * i + 2], ret.args[1][4 * i + 3],
                                 ret.args[1][4 * i + 4] >>
\* Two records with different rows.
C7_Witness ==
  /\ Decoded /\ ValidBlock(ret.args[1]) /\ Len(ret.args[1]) = 8
  /\ ~Raised(ret.out) /\ Len(ret.out.val) = 2
  /\ ret.out.val[1] # ret.out.val[2]

\* ---------------------------------------------- properties of the fields
\* The datasets of the file, and those that carry both attributes and match
\* a region number and a field name.
TheState == disk["p"].state
Matching(num, f) ==
  { k \in 1..Len(TheState) :
      /\ TheState[k].hasRegion /\ TheState[k].region = num
      /\ TheState[k].hasQuantity /\ TheState[k].quantity = f }
\* The least element of a set of numbers.
Least(s) == CHOOSE k \in s : \A k2 \in s : k <= k2
\* The region number of a region name in the files of the field and bulk
\* specifications: "a" is region_0, "b" is region_12.
NumberOf(r) == IF r = "a" THEN 0 ELSE 12
\* The block of a region name in the file, the empty block if there is none.
BlockOf(r) ==
  LET hits == { i \in 1..Len(disk["p"].regions) : disk["p"].regions[i].name = r }
  IN IF hits = {} THEN <<>> ELSE disk["p"].regions[Least(hits)].elements
Known(r) == \E i \in 1..Len(disk["p"].regions) : disk["p"].regions[i].name = r
\* A block that decodes and whose every vertex index is in the table.
Decodable(raw) ==
  ValidBlock(raw) /\ \A v \in Referenced(raw) : v >= 0 /\ v < Len(TheTable)
FieldCalled ==
  /\ ret.op = "get_region_field_data" /\ Len(ret.args) = 2 /\ ret.args[2] # None

\* C8. Field alignment: the field values get_region_field_data returns are
\* the stored values of the matched dataset, in stored order, and as many
\* as the region vertices returned with them.
C8_FieldAlignment ==
  (FieldCalled /\ ~Raised(ret.out) /\ ret.out.val.arity = 3) =>
    /\ Matching(NumberOf(ret.args[1]), ret.args[2]) # {}
    /\ ret.out.val.field
         = TheState[Least(Matching(NumberOf(ret.args[1]), ret.args[2]))].values
    /\ Len(ret.out.val.field) = Len(ret.out.val.vertices)

\* C9. Field absence on a single query: on an open file, for a region that
\* exists and whose mesh decodes, when no dataset has both the region's
\* number as its region attribute and the field name as its quantity
\* attribute, get_region_field_data(region, field) raises nothing; it
\* returns the region's mesh with no field values, and a warning naming
\* the field is on record.
C9_FieldAbsence ==
  (/\ FieldCalled /\ _file # None
   /\ Known(ret.args[1]) /\ Decodable(BlockOf(ret.args[1]))
   /\ Matching(NumberOf(ret.args[1]), ret.args[2]) = {}) =>
    /\ ~Raised(ret.out)
    /\ ret.out.val.arity = 2
    /\ ret.out.val.field = <<>>
    /\ ret.args[2] \in log
    /\ LET raw == BlockOf(ret.args[1])
       IN /\ Len(ret.out.val.vertices) = Cardinality(Referenced(raw))
          /\ Len(ret.out.val.triangles) = NumTriangles(raw)
          /\ \A i \in 1..NumTriangles(raw) : \A j \in 1..3 :
               ret.out.val.vertices[ret.out.val.triangles[i][j] + 1]
                 = TheTable[Corner(raw, i, j) + 1]
\* The field is absent although a dataset of the region has another
\* quantity, and a dataset of another region has this quantity.
C9_Witness ==
  /\ FieldCalled /\ ~Raised(ret.out) /\ ret.out.val.arity = 2
  /\ ret.args[2] \in log
  /\ Matching(NumberOf(ret.args[1]), ret.args[2]) = {}
  /\ \E k \in 1..Len(TheState) :
       /\ TheState[k].hasRegion /\ TheState[k].region = NumberOf(ret.args[1])
       /\ TheState[k].hasQuantity /\ TheState[k].quantity # ret.args[2]
  /\ \E k \in 1..Len(TheState) :
       /\ TheState[k].hasRegion /\ TheState[k].region # NumberOf(ret.args[1])
       /\ TheState[k].hasQuantity /\ TheState[k].quantity = ret.args[2]

\* ------------------------------------------------ properties of the bulk
BulkCalled == ret.op = "get_region_field_data_dict"
\* The names a bulk call asks for: the list given, or every name of the file.
RequestedRegions ==
  IF ret.args[1].isNone
    THEN { disk["p"].regions[i].name : i \in 1..Len(disk["p"].regions) }
  ELSE { ret.args[1].list[i] : i \in 1..Len(ret.args[1].list) }
RequestedFields ==
  IF ret.args[2].isNone
    THEN { TheState[k].name : k \in 1..Len(TheState) }
  ELSE { ret.args[2].list[i] : i \in 1..Len(ret.args[2].list) }
\* A region the bulk call can make an entry of: it exists and its block
\* decodes to at least one triangle.
Buildable(r) == Known(r) /\ BlockOf(r) # <<>> /\ Decodable(BlockOf(r))
HasEntry(result, r, f) == r \in DOMAIN result /\ f \in DOMAIN result[r]

BeyondTable(raw) ==
  Len(raw) % 4 = 0 /\ \E v \in Referenced(raw) : v < 0 \/ v >= Len(TheTable)
\* A region whose decoding or reindexing fails.
Failing(r) == Known(r) /\ (HasOtherTag(BlockOf(r)) \/ BeyondTable(BlockOf(r)))

\* C11. Error isolation in the bulk operation: when every requested region
\* exists and either has a mesh or fails to decode (a type tag other than
\* 2) or to reindex (a vertex index outside the table),
\* get_region_field_data_dict does not raise; it has no entry for a failing
\* region and has the entry of every other requested region and field
\* that has a matching dataset.
C11_ErrorIsolation ==
  (BulkCalled /\ \A r \in RequestedRegions : Buildable(r) \/ Failing(r)) =>
    /\ ~Raised(ret.out)
    /\ \A r \in RegionNames : \A f \in FieldNames :
         HasEntry(ret.out.val, r, f)
           <=> (/\ r \in RequestedRegions /\ f \in RequestedFields
                /\ Buildable(r)
                /\ Matching(NumberOf(r), f) # {})

\* -------------------------------------------- properties of the regions
\* The positions of the region groups of the file that carry a name.
GroupsNamed(r) ==
  { i \in 1..Len(disk["p"].regions) : disk["p"].regions[i].name = r }
\* The number n of the group key region_<n>.
KeyNumber(key) == CHOOSE n \in 0..99 : RegionKey(n) = key
RegionCalled == ret.op = "get_region"

\* C12. Region resolution: on an open file get_region(name) does not raise;
\* when no region group has exactly that name it returns None; otherwise
\* it returns a pair whose handle is a region group of the open file with
\* exactly that name (the first in key order), and whose number is the n
\* of that group's key region_<n>.
C12_RegionResolution ==
  (RegionCalled /\ geo # None) =>
    /\ ~Raised(ret.out)
    /\ ret.out.val.isNone <=> GroupsNamed(ret.args[1]) = {}
    /\ ~ret.out.val.isNone =>
         /\ ret.out.val.pos = Least(GroupsNamed(ret.args[1]))
         /\ ret.out.val.path = _file
         /\ ~IsClosed(handles, ret.out.val.handle)
         /\ ret.out.val.num = KeyNumber(disk["p"].regions[ret.out.val.pos].key)
\* The name asked for is that of region_12, after a group whose name
\* differs from it in case only.
C12_Witness ==
  /\ RegionCalled /\ ~Raised(ret.out) /\ ~ret.out.val.isNone
  /\ ret.args[1] = "a"
  /\ ret.out.val.num = 12 /\ ret.out.val.pos = 2
  /\ disk["p"].regions[1].name = "A"
\* No group has the name, although one has it in the other case.
C12_WitnessNone ==
  /\ RegionCalled /\ ~Raised(ret.out) /\ ret.out.val.isNone
  /\ ret.args[1] = "a" /\ GroupsNamed("A") # {}

\* C13. Region absence is never an exception: get_region_field_data of a
\* region name no group of the file has does not raise; and
\* get_region_field_data_dict asked for such a name among others does not
\* raise, has no entry for it, and has the entry of every requested region
\* that exists and has a matching dataset.
C13_RegionAbsence ==
  /\ (MeshCalled /\ GroupsNamed(ret.args[1]) = {}) => ~Raised(ret.out)
  /\ (BulkCalled /\ \E r \in RequestedRegions : GroupsNamed(r) = {}) =>
       /\ ~Raised(ret.out)
       /\ \A r \in RequestedRegions : \A f \in RequestedFields :
            HasEntry(ret.out.val, r, f)
              <=> (/\ GroupsNamed(r) # {}
                   /\ Matching(KeyNumber(disk["p"].regions[Least(GroupsNamed(r))].key),
                               f) # {})

\* ----------------------------------------- properties of the life cycle
\* Every file opened for the object has been closed.
AllReleased == \A h \in 1..Len(handles) : handles[h].closes >= 1
\* The object holds nothing of a file.
HoldsNothing ==
  /\ _file = None /\ geo = None /\ vertex = None /\ state = None
  /\ _region_names.isNone /\ _field_names.isNone

\* C14. Close is idempotent: close() never raises, whatever the state it is
\* called in; after it the object holds nothing of a file and every file
\* opened for it is closed; a further close() would change nothing; and no
\* file is ever closed more than once.
C14_CloseIdempotent ==
  /\ \A h \in 1..Len(handles) : handles[h].closes <= 1
  /\ ret.op = "close" =>
       /\ ~Raised(ret.out)
       /\ HoldsNothing
       /\ AllReleased
       /\ close(Obj) = Obj
\* close() after a second file was opened and queried.
C14_Witness ==
  /\ ret.op = "close" /\ Len(handles) = 2
  /\ handles[2].closes = 1
  /\ get_region_cache # EmptyCache

\* The object was closed and holds no file.
Closed == _file = None /\ (ret.op = "close" \/ handles # <<>>)
Accesses == { "region_names", "field_names", "dimensions", "file", "__getitem__",
              "get_region", "get_region_field_data" }

\* C15. Use after close: an access to derived data made while the object
\* is closed fails; it returns no data and leaves the object closed.
C15_UseAfterClose ==
  [][(Closed /\ ret'.op \in Accesses) => (Raised(ret'.out) /\ _file' = None)]_vars

\* C16. Cache scope: after close() nothing memoized for the object is
\* left: not the two sets of names, not a result of get_region, not a
\* result of get_region_field_data.
C16_CacheScope ==
  ret.op = "close" =>
    /\ _region_names.isNone /\ _field_names.isNone
    /\ get_region_cache = EmptyCache
    /\ get_region_field_data_cache = EmptyCache

\* What a call computes on the file now open when nothing is memoized.
FreshMemo == [gr |-> EmptyCache, gfd |-> EmptyCache, log |-> {},
              closed_error |-> "ValueError"]
\* C17. Re-open is a fresh open: the query that follows an assignment of
\* another path to filename, where the assignment succeeded, returns what
\* it computes from the file now open, whatever was asked of the file
\* open before.
C17_FreshReopen ==
  [][(/\ ret.op = "filename.setter" /\ ~Raised(ret.out)
      /\ Len(handles) >= 2 /\ handles[Len(handles) - 1].path # _filename) =>
       /\ ret'.op = "get_region" =>
            ret'.out = get_region(FreshMemo, ret'.args[1]).out
       /\ ret'.op = "get_region_field_data" =>
            ret'.out = get_region_field_data(FreshMemo, ret'.args).out
       /\ ret'.op = "region_names" => ret'.out = Return(get_region_names(disk[geo]))
       /\ ret'.op = "field_names" => ret'.out = Return(get_field_names(disk[state]))
       /\ ret'.op = "dimensions" => ret'.out = Return(dimensions(disk[vertex].vertex))
    ]_vars

\* The entries of a cache stay as they are.
Kept(c, d) == \A k \in DOMAIN c : k \in DOMAIN d /\ d[k] = c[k]
\* C18. Memoization: a call of get_region or get_region_field_data whose
\* arguments have a memoized result returns that result, logs nothing and
\* memoizes nothing new; a call that returns memoizes what it returns; a
\* memoized result never changes; and a read of region_names or
\* field_names whose set is held returns the set held, a read that
\* returns holding what it returns.
C18_Memoization ==
  [][/\ Kept(get_region_cache, get_region_cache')
     /\ Kept(get_region_field_data_cache, get_region_field_data_cache')
     /\ ret'.op = "get_region" =>
          /\ CacheHas(get_region_cache, ret'.args) =>
               /\ ret'.out = Return(get_region_cache[ret'.args])
               /\ get_region_cache' = get_region_cache
          /\ ~Raised(ret'.out) =>
               /\ CacheHas(get_region_cache', ret'.args)
               /\ get_region_cache'[ret'.args] = ret'.out.val
     /\ ret'.op = "get_region_field_data" =>
          /\ CacheHas(get_region_field_data_cache, ret'.args) =>
               /\ ret'.out = Return(get_region_field_data_cache[ret'.args])
               /\ get_region_field_data_cache' = get_region_field_data_cache
               /\ get_region_cache' = get_region_cache
               /\ log' = log
          /\ ~Raised(ret'.out) =>
               /\ CacheHas(get_region_field_data_cache', ret'.args)
               /\ get_region_field_data_cache'[ret'.args] = ret'.out.val
     /\ ret'.op = "region_names" =>
          /\ ~_region_names.isNone =>
               ret'.out = Return(_region_names.names) /\ UNCHANGED _region_names
          /\ ~Raised(ret'.out) => _region_names' = Names(ret'.out.val)
     /\ ret'.op = "field_names" =>
          /\ ~_field_names.isNone =>
               ret'.out = Return(_field_names.names) /\ UNCHANGED _field_names
          /\ ~Raised(ret'.out) => _field_names' = Names(ret'.out.val)
    ]_vars
\* get_region returned on the one file ever opened, still open, after
\* get_region_field_data had memoized a result: the region was resolved
\* before this call.
C18_Witness ==
  /\ ret.op = "get_region" /\ ~Raised(ret.out) /\ ~ret.out.val.isNone
  /\ Len(handles) = 1 /\ _file # None
  /\ get_region_field_data_cache # EmptyCache
  /\ ~_region_names.isNone

\* C19. Scoped acquisition: when the body of a with-block on the object is
\* left, at its end, by a return or by an exception, every file opened for
\* the object is closed and the object holds none.
C19_ScopedRelease ==
  ret.op = "__exit__" => (AllReleased /\ HoldsNothing /\ ~inside)
\* The body assigned a filename whose file lacks a group, and was left
\* by the exception.
C19_Witness ==
  /\ ret.op = "__exit__" /\ ret.args[1] # None
  /\ Len(handles) = 2 /\ AllReleased
  /\ ~Markers(disk[handles[2].path]).vertex

\* C20. Open failure: open_tdr(path) raises FileNotFoundError when no file
\* is at the path, raises KeyError when the file lacks the geometry group,
\* the vertex table or the state group, and returns a container in the
\* cases that remain, where the container holds the file and its groups.
C20_OpenFailure ==
  ret.op = "open_tdr" =>
    IF ret.args[1] \notin DOMAIN disk
      THEN ret.out.exc = "FileNotFoundError"
    ELSE IF Markers(disk[ret.args[1]]) # AllMarkers
      THEN ret.out.exc = "KeyError"
    ELSE /\ ~Raised(ret.out)
         /\ _file # None /\ geo # None /\ vertex # None /\ state # None
\* The file is there and has all but the state group.
C20_Witness ==
  /\ ret.op = "open_tdr" /\ Raised(ret.out)
  /\ ret.args[1] \in DOMAIN disk
  /\ Markers(disk[ret.args[1]]).geo /\ Markers(disk[ret.args[1]]).vertex
  /\ ~Markers(disk[ret.args[1]]).state

\* ------------------------------------------ properties of the empty region
\* C21. Empty region: for a region whose connectivity block is empty,
\* get_region_field_data raises nothing and returns an empty region vertex
\* array and an empty local triangle array, whatever the vertex table.
C21_EmptyRegion ==
  (MeshCalled /\ TheRaw = <<>>) =>
    /\ ~Raised(ret.out)
    /\ ret.out.val.arity = 2
    /\ ret.out.val.vertices = <<>>
    /\ ret.out.val.triangles = <<>>
\* The mesh of an empty block was asked of a file that has vertices.
C21_Witness ==
  /\ MeshReturned /\ TheRaw = <<>> /\ TheTable # <<>>
  /\ ret.out.val.vertices = <<>> /\ ret.out.val.triangles = <<>>

\* ------------------------------------------ properties of the bounding box
\* The vertex table of the file the object is named for.
CurrentTable == disk[_filename].vertex
\* lohi is the least and the greatest of coordinate c of the table.
IsRange(lohi, table, c) ==
  /\ \A i \in 1..Len(table) : lohi[1] <= table[i][c] /\ table[i][c] <= lohi[2]
  /\ \E i \in 1..Len(table) : table[i][c] = lohi[1]
  /\ \E i \in 1..Len(table) : table[i][c] = lohi[2]
Loaded == _file # None /\ geo # None /\ vertex # None /\ state # None

\* C22. Bounding box: on a loaded container whose file has a vertex,
\* dimensions returns, for the axis x and for the axis y, the least and the
\* greatest coordinate over every vertex of the table of the file the
\* container is now named for, whether or not a region refers to the
\* vertex, and whatever file was loaded before.
C22_BoundingBox ==
  (ret.op = "dimensions" /\ Loaded /\ CurrentTable # <<>>) =>
    /\ ~Raised(ret.out)
    /\ DOMAIN ret.out.val = {"x", "y"}
    /\ IsRange(ret.out.val.x, CurrentTable, 1)
    /\ IsRange(ret.out.val.y, CurrentTable, 2)
\* The box is asked after the object was pointed from one file at another
\* whose box is different, and a vertex no triangle refers to is alone at
\* the edge of the box.
C22_Witness ==
  /\ ret.op = "dimensions" /\ Loaded /\ ~Raised(ret.out)
  /\ Len(handles) >= 2
  /\ handles[Len(handles) - 1].path # _filename
  /\ disk[handles[Len(handles) - 1].path].vertex # <<>>
  /\ dimensions(disk[handles[Len(handles) - 1].path].vertex) # ret.out.val
  /\ ret.out.val.x[2] > CurrentTable[1][1]
  /\ ret.out.val.y[1] < CurrentTable[1][2]

\* ------------------------------------------------- properties of the crop
CropCalled == ret.op = "crop_triangles"
\* Point p of the triangulation is inside the limits, None being no limit
\* and the bounds counting as inside.
InsideLimits(tri, p, xlim, ylim) ==
  /\ ~xlim.isNone =>
       \E lo \in { xlim.pair[1], xlim.pair[2] } : \E hi \in { xlim.pair[1], xlim.pair[2] } :
         lo <= tri.x[p + 1] /\ tri.x[p + 1] <= hi
  /\ ~ylim.isNone =>
       \E lo \in { ylim.pair[1], ylim.pair[2] } : \E hi \in { ylim.pair[1], ylim.pair[2] } :
         lo <= tri.y[p + 1] /\ tri.y[p + 1] <= hi
\* The triangles whose three points are all inside the limits.
Kept3(tri, xlim, ylim) ==
  { i \in 1..Len(tri.triangles) :
      \A j \in 1..3 : InsideLimits(tri, tri.triangles[i][j], xlim, ylim) }
\* The triangles of t that its mask does not hide.
Unmasked(t) == { i \in 1..Len(t.triangles) : t.mask.isNone \/ ~t.mask.bits[i] }

\* C23. Crop: crop_triangles(tri, xlim, ylim) returns tri itself when both
\* limits are None; returns None when no triangle has its three vertices
\* inside the limits; and otherwise returns a triangulation over the same
\* points and triangles in which the unmasked triangles are exactly those
\* whose three vertices are inside the limits.
C23_Crop ==
  CropCalled =>
    LET tri == ret.args[1]
        xlim == ret.args[2]
        ylim == ret.args[3]
    IN /\ ~Raised(ret.out)
       /\ IF xlim.isNone /\ ylim.isNone THEN ret.out.val = tri
          ELSE IF Kept3(tri, xlim, ylim) = {} THEN ret.out.val = NoTriangulation
          ELSE /\ ret.out.val # NoTriangulation
               /\ ret.out.val.x = tri.x /\ ret.out.val.y = tri.y
               /\ ret.out.val.triangles = tri.triangles
               /\ Unmasked(ret.out.val) = Kept3(tri, xlim, ylim)

\* ------------------------------------------ properties of the text parser
Parsed == ret.op = "_parsing"
TheDatasets == disk["p"].datasets
TheData == disk["p"].data

\* C24. Ragged chunk padding: for a Data block of L numbers and k >= 1
\* declared datasets, _parsing raises nothing and gives every dataset i
\* (0-based) exactly floor(L / k) values, the j-th of them the number at
\* position i + j * k of the block, whether or not k divides L.
C24_RaggedChunks ==
  Parsed =>
    /\ ~Raised(ret.out)
    /\ DOMAIN ret.out.val = { TheDatasets[i] : i \in 1..Len(TheDatasets) }
    /\ \A i \in 0..(Len(TheDatasets) - 1) :
         /\ Len(ret.out.val[TheDatasets[i + 1]]) = Len(TheData) \div Len(TheDatasets)
         /\ \A j \in 0..((Len(TheData) \div Len(TheDatasets)) - 1) :
              ret.out.val[TheDatasets[i + 1]][j + 1]
                = TheData[i + j * Len(TheDatasets) + 1]

\* ------------------------------------------------- properties of loading
\* The calls that run load().
Loads == { "load", "open_tdr", "filename.setter", "file", "__enter__" }

\* C25. Load is all-or-nothing: in every state the object can reach,
\* _file, geo, vertex and state are all None or all set; and after a call
\* whose load() failed the object holds no file and every file opened for
\* it is closed, so that the next load() opens the file again.
C25_LoadAllOrNothing ==
  /\ \/ _file = None /\ geo = None /\ vertex = None /\ state = None
     \/ _file # None /\ geo # None /\ vertex # None /\ state # None
  /\ (ret.op \in Loads /\ Raised(ret.out)) => (_file = None /\ AllReleased)

\* ---------------------------------------------- properties of field names
\* The set of names a list(get_region_field_names(r)) that returned holds.
SetOf(l) == { l[i] : i \in 1..Len(l) }
\* get_region_field_data(r, f) returns field values in this state.
Resolves(r, f) ==
  \E c \in { get_region_field_data(MemoWith("ValueError"), << r, f >>) } :
    ~Raised(c.out) /\ c.out.val.arity = 3

\* C26. Listed field names are resolvable: for every name f that
\* field_names lists there is a region r of the file for which
\* get_region_field_data(r, f) returns field values; and field_names is
\* the union, over the regions r of the file, of what
\* get_region_field_names(r) yields.
C26_ListedResolvable ==
  (ret.op = "field_names" /\ ~Raised(ret.out)) =>
    /\ \A f \in ret.out.val : \E r \in get_region_names(disk[_filename]) : Resolves(r, f)
    /\ \A r \in get_region_names(disk[_filename]) :
         ~Raised(get_region_field_names(disk[_filename], r))
    /\ ret.out.val
         = UNION { SetOf(get_region_field_names(disk[_filename], r).val) :
                     r \in get_region_names(disk[_filename]) }

====
